---- MODULE Spec2Model ----
(***************************************************************************)
(* GitHub Relationship Analyzer (src/github_analyzer.py).                  *)
(*                                                                         *)
(* The model follows one run of main():                                    *)
(*   - the username prompt loop and GitHubAnalyzer.__init__ (ValidateSpec),*)
(*   - the menu loop with find_non_followers / find_fans, the lazy cached  *)
(*     get_following / get_followers, the page loop of _get_paginated_data *)
(*     against a nondeterministic listing endpoint, and save_to_file       *)
(*     (Spec),                                                             *)
(*   - the same session against an endpoint that may keep answering        *)
(*     non-empty pages for ever, under weak fairness of the fetch steps    *)
(*     (LiveSpec).                                                         *)
(*                                                                         *)
(* Python values: None is the empty tuple, a list l is the 1-tuple <<l>>,  *)
(* so that "x is None" and "x == []" stay different questions.             *)
(***************************************************************************)
EXTENDS Integers, Sequences, FiniteSets, TLC

VARIABLES
    username,      \* the username typed or passed in (code points)
    accepted,      \* what validate_username answered on it: None, Some(b)
    pc,            \* position of main()
    choice,        \* the menu choice being served
    kind,          \* relation whose endpoint is being paginated, or "none"
    page,          \* _get_paginated_data: page
    results,       \* _get_paginated_data: results
    requests,      \* params of the requests issued by the running fetch
    served,        \* responses received by the running fetch
    data,          \* value returned by _get_paginated_data
    _followers,    \* self._followers
    _following,    \* self._following
    following,     \* find_*: following
    followers,     \* find_*: followers
    result,        \* main: non_followers / fans
    fmt,           \* main: fmt
    save_status,   \* message printed by the last save_to_file
    files,         \* file names opened for writing
    raised,        \* exception that left main() uncaught, or "none"
    fetch_failed,  \* history: kinds whose fetch printed an HTTP error
    runs,          \* history: pagination runs started per kind
    endless,       \* the endpoint never stops answering non-empty pages
    overflow       \* the running fetch went past what the model records

vars == <<username, accepted, pc, choice, kind, page, results, requests,
          served, data, _followers, _following, following, followers,
          result, fmt, save_status, files, raised, fetch_failed, runs,
          endless, overflow>>

(***************************************************************************)
(* Bounds of the model.                                                    *)
(***************************************************************************)
NumLogins == 2     \* distinct logins the endpoints may list
MaxItems == 2      \* items one listing endpoint holds (summed over pages)
MaxFiles == 1      \* output files one session writes
MaxRun == 40       \* length of the alphanumeric run that starts a typed name
MaxTail == 3       \* arbitrary characters typed after that run

(***************************************************************************)
(* Program constants.                                                      *)
(***************************************************************************)
PerPage == 100     \* params = {'per_page': 100, ...}
MaxRepeat == 38    \* the {0,38} of the username pattern
Hyphen == 45       \* '-' in the username pattern
Newline == 10      \* the character before which $ also matches

(***************************************************************************)
(* Python values.                                                          *)
(***************************************************************************)
None == <<>>
Some(v) == <<v>>
Get(o) == o[1]

BoundedSeq(S, n) == UNION {[1..m -> S] : m \in 0..n}

Range(s) == {s[i] : i \in DOMAIN s}

Kinds == {"following", "followers"}

(***************************************************************************)
(* validate_username: re.match of                                          *)
(*   ^[a-zA-Z0-9](?:[a-zA-Z0-9]|-(?=[a-zA-Z0-9])){0,38}$                   *)
(* on a string of code points.  Without re.MULTILINE, $ matches at the end *)
(* of the string and also just before a newline that ends the string.      *)
(***************************************************************************)
IsAlnum(c) == c \in (97..122) \cup (65..90) \cup (48..57)

\* one repetition of (?:[a-zA-Z0-9]|-(?=[a-zA-Z0-9])) consuming u[i]
Repetition(u, i) ==
    /\ i <= Len(u)
    /\ \/ IsAlnum(u[i])
       \/ u[i] = Hyphen /\ i + 1 <= Len(u) /\ IsAlnum(u[i + 1])

\* $ after the first n characters of u
Dollar(u, n) ==
    \/ n = Len(u)
    \/ n = Len(u) - 1 /\ u[Len(u)] = Newline

validate_username(u) ==
    /\ Len(u) >= 1
    /\ IsAlnum(u[1])
    /\ \E k \in 0..MaxRepeat :
          /\ \A i \in 2..(k + 1) : Repetition(u, i)
          /\ Dollar(u, k + 1)

\* the strings a caller may pass: a run of at most `run` letters 'a', then
\* at most `tail` characters among a, Z, 0, '-', '_' and newline
SampleChars == {97, 90, 48, Hyphen, 95, Newline}
Names(run, tail) ==
    {[i \in 1..n |-> 97] \o t :
        n \in 0..run, t \in BoundedSeq(SampleChars, tail)}

\* what input() may return at the prompt: a line, without its newline
TypedLines(run, tail) ==
    {u \in Names(run, tail) : \A i \in DOMAIN u : u[i] # Newline}

(***************************************************************************)
(* The listing endpoint.  An item of a page is an object with a login      *)
(* field, <<"login", n>>, or an object without one, <<"id", 0>>.  A        *)
(* response is a status and a body: Some(list) when the body is a JSON     *)
(* list, None when it is not JSON.                                         *)
(***************************************************************************)
User(n) == <<"login", n>>
NoLogin == <<"id", 0>>
Items == {User(n) : n \in 1..NumLogins} \cup {NoLogin}

Statuses == {200, 403, 404, 500}

\* response.raise_for_status() raises HTTPError
raise_for_status(status) == status >= 400 /\ status < 600

\* the page bodies an endpoint that holds at most MaxItems items can still
\* answer after `got` items
Bodies(got) == BoundedSeq(Items, MaxItems - Len(got))

(***************************************************************************)
(* _get_paginated_data                                                     *)
(***************************************************************************)
\* a slip of line 66: the page is put in front of what was accumulated
ExtendFront(res, body) == body \o res

\* results.extend(data)
Extend(res, body) == res \o body

\* page += 1
NextPage(p) == p + 1

\* a slip of line 73: the pages fetched so far are returned
on_http_error_partial(res) == Some(res)

\* except HTTPError: ... return None
on_http_error(res) == None

\* params = {'per_page': 100, 'page': page}
Params(p) == [per_page |-> PerPage, page |-> p]

FetchLocals == <<kind, page, results, requests, served, data, overflow>>
Caches == <<_followers, _following>>
Locals == <<following, followers>>
SaveState == <<fmt, save_status, files>>
Prompt == <<username, accepted>>

\* response = self.session.get(url, params=params)
SendRequest ==
    /\ pc = "request"
    /\ ~overflow
    /\ requests' = Append(requests, Params(page))
    /\ pc' = "response"
    /\ UNCHANGED <<kind, page, results, served, data, overflow, Caches,
                   Locals, SaveState, Prompt, choice, result, raised,
                   fetch_failed, runs, endless>>

\* session.get raises a transport error: no except clause catches it, in
\* _get_paginated_data, get_*, find_* or main
RequestRaises ==
    /\ pc = "response"
    /\ raised' = "ConnectionError"
    /\ pc' = "crashed"
    /\ UNCHANGED <<FetchLocals, Caches, Locals, SaveState, Prompt, choice,
                   result, fetch_failed, runs, endless>>

\* a 200 response whose body is not JSON: response.json() raises, uncaught
JsonRaises ==
    /\ pc = "response"
    /\ served' = Append(served, [status |-> 200, body |-> None])
    /\ raised' = "JSONDecodeError"
    /\ pc' = "crashed"
    /\ UNCHANGED <<kind, page, results, requests, data, overflow, Caches,
                   Locals, SaveState, Prompt, choice, result, fetch_failed,
                   runs, endless>>

\* a 200 response with a non-empty list: extend, next page
ReceivePage ==
    /\ pc = "response"
    /\ \E body \in Bodies(results) \ {<<>>} :
          /\ served' = Append(served, [status |-> 200, body |-> Some(body)])
          /\ results' = Extend(results, body)
    /\ page' = NextPage(page)
    /\ pc' = "request"
    /\ UNCHANGED <<kind, requests, data, overflow, Caches, Locals, SaveState,
                   Prompt, choice, result, raised, fetch_failed, runs,
                   endless>>

\* a slip of lines 64-65: no break on an empty page
ReceiveEmptyContinue ==
    /\ pc = "response"
    /\ served' = Append(served, [status |-> 200, body |-> Some(<<>>)])
    /\ page' = NextPage(page)
    /\ pc' = "request"
    /\ UNCHANGED <<kind, results, requests, data, overflow, Caches, Locals,
                   SaveState, Prompt, choice, result, raised, fetch_failed,
                   runs, endless>>

\* a 200 response with an empty list: break, return results
ReceiveEmpty ==
    /\ pc = "response"
    /\ served' = Append(served, [status |-> 200, body |-> Some(<<>>)])
    /\ data' = Some(results)
    /\ pc' = "store"
    /\ UNCHANGED <<kind, page, results, requests, overflow, Caches, Locals,
                   SaveState, Prompt, choice, result, raised, fetch_failed,
                   runs, endless>>

\* a 4xx/5xx response: the error is printed and None returned
ReceiveHTTPError ==
    /\ pc = "response"
    /\ \E status \in Statuses :
          /\ raise_for_status(status)
          /\ served' = Append(served, [status |-> status, body |-> None])
    /\ data' = on_http_error(results)
    /\ fetch_failed' = fetch_failed \cup {kind}
    /\ pc' = "store"
    /\ UNCHANGED <<kind, page, results, requests, overflow, Caches, Locals,
                   SaveState, Prompt, choice, result, raised, runs, endless>>

(***************************************************************************)
(* get_followers / get_following                                           *)
(***************************************************************************)
Slot(k) == IF k = "following" THEN _following ELSE _followers

SetSlot(k, v) ==
    IF k = "following"
    THEN _following' = v /\ UNCHANGED _followers
    ELSE _followers' = v /\ UNCHANGED _following

SetLocal(k, v) ==
    IF k = "following"
    THEN following' = v /\ UNCHANGED followers
    ELSE followers' = v /\ UNCHANGED following

\* find_* calls get_following() first, get_followers() second
GetPc(k) == IF k = "following" THEN "get_following" ELSE "get_followers"
AfterGet(k) == IF k = "following" THEN "get_followers" ELSE "compute"

\* a slip of lines 81/95: "if not self._followers"
CacheMissFalsy(slot) == slot = None \/ slot = Some(<<>>)

\* if self._followers is None:
CacheMiss(slot) == slot = None

\* user['login'] raises KeyError on an object without that field
HasLogin(item) == item[1] = "login"

\* [user['login'] for user in data]
Logins(items) == [i \in 1..Len(items) |-> items[i][2]]

\* a slip of lines 87/101: a failed fetch leaves the slot unset
cache_value_retry(d) == IF d # None THEN Some(Logins(Get(d))) ELSE None

\* self._followers = [...] if data is not None else []
cache_value(d) == IF d # None THEN Some(Logins(Get(d))) ELSE Some(<<>>)

\* cache miss: print the progress line and enter _get_paginated_data
get_miss(k) ==
    /\ pc = GetPc(k)
    /\ CacheMiss(Slot(k))
    /\ kind' = k
    /\ page' = 1
    /\ results' = <<>>
    /\ requests' = <<>>
    /\ served' = <<>>
    /\ data' = None
    /\ runs' = [runs EXCEPT ![k] = @ + 1]
    /\ pc' = "request"
    /\ UNCHANGED <<overflow, Caches, Locals, SaveState, Prompt, choice,
                   result, raised, fetch_failed, endless>>

\* cache hit: return the cached list
get_hit(k) ==
    /\ pc = GetPc(k)
    /\ ~CacheMiss(Slot(k))
    /\ SetLocal(k, Slot(k))
    /\ pc' = AfterGet(k)
    /\ UNCHANGED <<FetchLocals, Caches, SaveState, Prompt, choice, result,
                   raised, fetch_failed, runs, endless>>

\* _get_paginated_data has returned data: fill the cache and return it
get_store(k) ==
    /\ pc = "store"
    /\ kind = k
    /\ IF data # None /\ \E i \in DOMAIN Get(data) : ~HasLogin(Get(data)[i])
       THEN /\ raised' = "KeyError"
            /\ pc' = "crashed"
            /\ UNCHANGED <<FetchLocals, Caches, Locals>>
       ELSE /\ SetSlot(k, cache_value(data))
            /\ SetLocal(k, cache_value(data))
            /\ pc' = AfterGet(k)
            /\ kind' = "none"
            /\ page' = 1
            /\ results' = <<>>
            /\ requests' = <<>>
            /\ served' = <<>>
            /\ data' = None
            /\ overflow' = FALSE
            /\ UNCHANGED raised
    /\ UNCHANGED <<SaveState, Prompt, choice, result, fetch_failed, runs,
                   endless>>

get_following == 
    \/ get_miss("following")
    \/ get_hit("following")
    \/ get_store("following")

get_followers ==
    \/ get_miss("followers")
    \/ get_hit("followers")
    \/ get_store("followers")

(***************************************************************************)
(* find_non_followers / find_fans                                          *)
(***************************************************************************)
\* a slip of line 116: "in" for "not in"
find_non_followers_mutual(fg, fs) ==
    IF fg = None \/ fs = None
    THEN <<>>
    ELSE SelectSeq(Get(fg), LAMBDA user : user \in Range(Get(fs)))

\* lines 114-116, on the values get_following() and get_followers() returned
find_non_followers(fg, fs) ==
    IF fg = None \/ fs = None
    THEN <<>>
    ELSE SelectSeq(Get(fg), LAMBDA user : user \notin Range(Get(fs)))

\* lines 128-130
find_fans(fg, fs) ==
    IF fg = None \/ fs = None
    THEN <<>>
    ELSE SelectSeq(Get(fs), LAMBDA user : user \notin Range(Get(fg)))

\* the find_* call returns to main, which displays the list and offers to
\* save it when it is not empty
FindReturn(list) ==
    /\ result' = Some(list)
    /\ following' = None
    /\ followers' = None
    /\ pc' = IF list # <<>> THEN "save_prompt" ELSE "menu"
    /\ UNCHANGED <<FetchLocals, Caches, SaveState, Prompt, choice, raised,
                   fetch_failed, runs, endless>>

find_non_followers_return ==
    /\ pc = "compute"
    /\ choice = "1"
    /\ FindReturn(find_non_followers(following, followers))

find_fans_return ==
    /\ pc = "compute"
    /\ choice = "2"
    /\ FindReturn(find_fans(following, followers))

(***************************************************************************)
(* save_to_file and the menu loop of main                                  *)
(***************************************************************************)
\* str.lower() on the tokens typed in the model
lower(t) ==
    CASE t = "Y" -> "y"
      [] t = "JSON" -> "json"
      [] OTHER -> t

Answers == {"y", "Y", "n", ""}
Tokens == {"txt", "csv", "json", "JSON", "xml", ""}
IOOutcomes == {"ok", "open_fails", "write_fails"}

\* a slip of lines 143-159: the file is opened before the format is looked at
save_to_file_opens_first(fs, filename, file_format, io) ==
    IF file_format \in {"txt", "csv", "json"}
    THEN CASE io = "open_fails" ->
                [files |-> fs, status |-> "io_error"]
           [] io = "write_fails" ->
                [files |-> fs \cup {<<filename, file_format>>},
                 status |-> "io_error"]
           [] OTHER ->
                [files |-> fs \cup {<<filename, file_format>>},
                 status |-> "saved"]
    ELSE [files |-> fs \cup {<<filename, file_format>>},
          status |-> "unsupported"]

\* save_to_file(data, filename, file_format): the files on disk afterwards
\* and the message printed.  io is what the file system does when a file
\* is opened and written.
save_to_file(fs, filename, file_format, io) ==
    IF file_format \in {"txt", "csv", "json"}
    THEN CASE io = "open_fails" ->
                [files |-> fs, status |-> "io_error"]
           [] io = "write_fails" ->
                [files |-> fs \cup {<<filename, file_format>>},
                 status |-> "io_error"]
           [] OTHER ->
                [files |-> fs \cup {<<filename, file_format>>},
                 status |-> "saved"]
    ELSE [files |-> fs, status |-> "unsupported"]

\* f"{username}_non_followers" / f"{username}_fans"
Category == IF choice = "1" THEN "non_followers" ELSE "fans"

Choices == {"1", "2", "3", "9"}

\* choice = input(...): dispatch of one menu iteration
MenuChoice ==
    /\ pc = "menu"
    /\ \E c \in Choices :
          /\ choice' = c
          /\ pc' = CASE c \in {"1", "2"} -> "get_following"
                     [] c = "3" -> "done"
                     [] OTHER -> "menu"
    /\ result' = None
    /\ fmt' = ""
    /\ save_status' = "none"
    /\ UNCHANGED <<FetchLocals, Caches, Locals, files, Prompt, raised,
                   fetch_failed, runs, endless>>

\* input("Save this list to a file? (y/n): ").lower() == 'y'
SaveAnswer ==
    /\ pc = "save_prompt"
    /\ \E ans \in Answers :
          pc' = IF lower(ans) = "y" THEN "fmt_prompt" ELSE "menu"
    /\ UNCHANGED <<FetchLocals, Caches, Locals, SaveState, Prompt, choice,
                   result, raised, fetch_failed, runs, endless>>

\* fmt = input(...).lower(); analyzer.save_to_file(list, name, fmt)
SaveFormat ==
    /\ pc = "fmt_prompt"
    /\ \E token \in Tokens, io \in IOOutcomes :
          LET out == save_to_file(files, Category, lower(token), io)
          IN  /\ Cardinality(out.files) <= MaxFiles
              /\ fmt' = lower(token)
              /\ files' = out.files
              /\ save_status' = out.status
    /\ pc' = "menu"
    /\ UNCHANGED <<FetchLocals, Caches, Locals, Prompt, choice, result,
                   raised, fetch_failed, runs, endless>>

(***************************************************************************)
(* The session: from the constructed analyzer to the end of main.          *)
(***************************************************************************)
InitSession ==
    /\ pc = "menu"
    /\ username = <<97>>
    /\ accepted = Some(TRUE)
    /\ choice = ""
    /\ kind = "none"
    /\ page = 1
    /\ results = <<>>
    /\ requests = <<>>
    /\ served = <<>>
    /\ data = None
    /\ _followers = None
    /\ _following = None
    /\ following = None
    /\ followers = None
    /\ result = None
    /\ fmt = ""
    /\ save_status = "none"
    /\ files = {}
    /\ raised = "none"
    /\ fetch_failed = {}
    /\ runs = [k \in Kinds |-> 0]
    /\ overflow = FALSE

Init == InitSession /\ endless = FALSE

Next ==
    \/ MenuChoice
    \/ get_following
    \/ get_followers
    \/ SendRequest
    \/ RequestRaises
    \/ JsonRaises
    \/ ReceivePage
    \/ ReceiveEmpty
    \/ ReceiveHTTPError
    \/ find_non_followers_return
    \/ find_fans_return
    \/ SaveAnswer
    \/ SaveFormat

Spec == Init /\ [][Next]_vars

(***************************************************************************)
(* The same session against an endpoint that may answer non-empty pages    *)
(* for ever (one that ignores the page parameter, say).  The loop of       *)
(* _get_paginated_data has no page limit, so its run is then unbounded;    *)
(* the model records the first MaxItems items and the requests made for    *)
(* them, and past that point (overflow) only that the loop keeps turning.  *)
(***************************************************************************)
\* a further non-empty page arrives when MaxItems items are already held:
\* the loop extends results and goes on to the next page
ReceiveMore ==
    /\ pc = "response"
    /\ endless
    /\ Len(results) = MaxItems
    /\ overflow' = TRUE
    /\ pc' = "request"
    /\ UNCHANGED <<kind, page, results, requests, served, data, Caches,
                   Locals, SaveState, Prompt, choice, result, raised,
                   fetch_failed, runs, endless>>

\* the request for the next page, past the recorded ones
SendRequestBeyond ==
    /\ pc = "request"
    /\ overflow
    /\ pc' = "response"
    /\ UNCHANGED <<FetchLocals, Caches, Locals, SaveState, Prompt, choice,
                   result, raised, fetch_failed, runs, endless>>

LiveInit == InitSession /\ endless \in BOOLEAN

\* the steps of a fetch: the program's own, and the endpoint's answers
FetchStep ==
    \/ SendRequest
    \/ SendRequestBeyond
    \/ RequestRaises
    \/ JsonRaises
    \/ ReceivePage
    \/ ReceiveEmpty
    \/ ReceiveHTTPError
    \/ ReceiveMore

LiveNext ==
    \/ MenuChoice
    \/ get_following
    \/ get_followers
    \/ FetchStep
    \/ find_non_followers_return
    \/ find_fans_return
    \/ SaveAnswer
    \/ SaveFormat

\* single-threaded and blocking: a started fetch keeps stepping, and every
\* request issued is answered (by a response or by an exception)
LiveSpec == LiveInit /\ [][LiveNext]_vars /\ WF_vars(FetchStep)

(***************************************************************************)
(* Validation: the username prompt loop of main, which constructs the     *)
(* analyzer from an accepted line, and a direct call GitHubAnalyzer(name)  *)
(* with any string.                                                        *)
(***************************************************************************)
\* username = input(...); GitHubAnalyzer.validate_username(username)
EnterUsername ==
    /\ pc = "username"
    /\ \E u \in TypedLines(MaxRun, MaxTail) :
          /\ username' = u
          /\ accepted' = Some(validate_username(u))
          /\ pc' = IF validate_username(u) THEN "construct" ELSE "rejected"
    /\ UNCHANGED <<FetchLocals, Caches, Locals, SaveState, choice, result,
                   raised, fetch_failed, runs, endless>>

\* print("Invalid GitHub username. Please try again."): back to the prompt
Reprompt ==
    /\ pc = "rejected"
    /\ username' = <<>>
    /\ accepted' = None
    /\ pc' = "username"
    /\ UNCHANGED <<FetchLocals, Caches, Locals, SaveState, choice, result,
                   raised, fetch_failed, runs, endless>>

\* GitHubAnalyzer(username): __init__ validates (again, when called from
\* main) and raises ValueError, or sets the fields
Construct ==
    /\ pc = "construct"
    /\ accepted' = Some(validate_username(username))
    /\ IF validate_username(username)
       THEN /\ _followers' = None
            /\ _following' = None
            /\ pc' = "constructed"
            /\ UNCHANGED raised
       ELSE /\ raised' = "ValueError"
            /\ pc' = "not_constructed"
            /\ UNCHANGED Caches
    /\ UNCHANGED <<FetchLocals, Locals, SaveState, username, choice, result,
                   fetch_failed, runs, endless>>

ValidateInit ==
    /\ \/ pc = "username" /\ username = <<>>
       \/ pc = "construct" /\ username \in Names(MaxRun, MaxTail)
    /\ accepted = None
    /\ choice = ""
    /\ kind = "none"
    /\ page = 1
    /\ results = <<>>
    /\ requests = <<>>
    /\ served = <<>>
    /\ data = None
    /\ _followers = None
    /\ _following = None
    /\ following = None
    /\ followers = None
    /\ result = None
    /\ fmt = ""
    /\ save_status = "none"
    /\ files = {}
    /\ raised = "none"
    /\ fetch_failed = {}
    /\ runs = [k \in Kinds |-> 0]
    /\ overflow = FALSE
    /\ endless = FALSE

ValidateNext ==
    \/ EnterUsername
    \/ Reprompt
    \/ Construct

ValidateSpec == ValidateInit /\ [][ValidateNext]_vars

(***************************************************************************)
(* Properties.                                                             *)
(***************************************************************************)
LocalOf(k) == IF k = "following" THEN following ELSE followers

LastServed == served[Len(served)]

\* the responses of the running fetch were all 200 with a JSON list
AllPagesOk ==
    \A i \in DOMAIN served : served[i].status = 200 /\ served[i].body # None

\* the bodies of the first n responses, one after the other
RECURSIVE Concat(_, _)
Concat(resps, n) ==
    IF n = 0 THEN <<>> ELSE Concat(resps, n - 1) \o Get(resps[n].body)

Fetching == pc \in {"request", "response"}

\* C1: when the endpoint answered k >= 0 non-empty pages and then an empty
\* one, all with status 200, _get_paginated_data returns the concatenation
\* of the k pages in the order received and has issued exactly k+1
\* requests, for pages 1..k+1 in that order, each with per_page=100.
C1_PaginationExact ==
    (pc = "store" /\ AllPagesOk) =>
        /\ LastServed.body = Some(<<>>)
        /\ \A i \in 1..(Len(served) - 1) : served[i].body # Some(<<>>)
        /\ data = Some(Concat(served, Len(served) - 1))
        /\ Len(requests) = Len(served)
        /\ \A i \in DOMAIN requests :
              requests[i] = [per_page |-> 100, page |-> i]

\* two non-empty pages then an empty one: two items in order, 3 requests
C1_Witness ==
    /\ pc = "store"
    /\ AllPagesOk
    /\ Len(served) = 3
    /\ Len(requests) = 3
    /\ data = Some(<<User(1), User(2)>>)

Succeeded(k) == Slot(k) # None /\ k \notin fetch_failed

\* C2: after a successful get_followers / get_following, every later call
\* for that kind (whatever was called in between) returns the cached list
\* and issues no request, also when the list is empty; the slot of a kind
\* is written at most once per session.
C2_CacheHitNoRequest ==
    /\ [](\A k \in Kinds :
            Succeeded(k) =>
                /\ runs[k] = 1
                /\ kind # k
                /\ LocalOf(k) # None => LocalOf(k) = Slot(k))
    /\ [][\A k \in Kinds :
            /\ Slot(k) # None => Slot(k)' = Slot(k)
            /\ Succeeded(k) => (kind' # k /\ runs'[k] = runs[k])]_vars

\* get_following() answered from the cache in a later find_* call: the
\* followers slot is filled already, so an earlier find_* call completed
C2_Witness ==
    /\ pc = "get_followers"
    /\ choice = "2"
    /\ _followers # None
    /\ Succeeded("following")
    /\ following = Some(<<1, 2>>)
    /\ runs["following"] = 1

\* C3: when a page request (the first or a later one) is answered with an
\* HTTP error status, _get_paginated_data returns None, and get_followers /
\* get_following cache and return the empty list: no item of the pages
\* already fetched appears in it.
C3_HttpErrorNoPartial ==
    /\ (pc = "store" /\ served # <<>> /\ raise_for_status(LastServed.status))
          => (data = None /\ kind \in fetch_failed)
    /\ \A k \in fetch_failed :
          /\ kind # k => Slot(k) = Some(<<>>)
          /\ LocalOf(k) \in {None, Some(<<>>)}

\* a 404 on the second page, after a first page with items
C3_Witness ==
    /\ pc = "store"
    /\ Len(served) = 2
    /\ LastServed.status = 404
    /\ results # <<>>
    /\ data = None

\* C4: every request failure that is not an HTTP error status is caught at
\* the fetch boundary, so no exception leaves get_followers /
\* get_following and the session goes on.
C4_NonHttpFailuresCaught == raised = "none" /\ pc # "crashed"

\* positions of xs whose element is not in ys
Kept(xs, ys) == {i \in DOMAIN xs : \A j \in DOMAIN ys : ys[j] # xs[i]}

\* r lists the elements of xs at the positions Kept(xs, ys), in order
IsDifference(r, xs, ys) ==
    /\ Len(r) = Cardinality(Kept(xs, ys))
    /\ \A i \in Kept(xs, ys) :
          r[Cardinality({j \in Kept(xs, ys) : j <= i})] = xs[i]

\* C5: when both lists were fetched successfully, find_non_followers
\* returns the identifiers of the following list that are not in the
\* followers list, in the following list's order, and find_fans those of
\* the followers list that are not in the following list, in its order.
C5_Differences ==
    (result # None /\ fetch_failed = {}) =>
        /\ _following # None
        /\ _followers # None
        /\ choice = "1" =>
              IsDifference(Get(result), Get(_following), Get(_followers))
        /\ choice = "2" =>
              IsDifference(Get(result), Get(_followers), Get(_following))

\* following = [1, 2], followers = [2]: find_non_followers returned [1]
C5_Witness ==
    /\ choice = "1"
    /\ fetch_failed = {}
    /\ _following = Some(<<1, 2>>)
    /\ _followers = Some(<<2>>)
    /\ result = Some(<<1>>)

\* C6: when the fetch of either kind failed in the session, both
\* find_non_followers and find_fans return the empty sequence.
C6_FailedFetchEmptyDiff ==
    (result # None /\ fetch_failed # {}) => result = Some(<<>>)

\* the identifier grammar: 1 to 39 characters, each alphanumeric or a
\* hyphen, no hyphen first or last, no two hyphens in a row
Grammar(u) ==
    /\ Len(u) >= 1
    /\ Len(u) <= 39
    /\ \A i \in DOMAIN u : IsAlnum(u[i]) \/ u[i] = Hyphen
    /\ u[1] # Hyphen
    /\ u[Len(u)] # Hyphen
    /\ \A i \in 1..(Len(u) - 1) : ~(u[i] = Hyphen /\ u[i + 1] = Hyphen)

\* C7: validate_username accepts a string if and only if it matches the
\* identifier grammar (so it rejects a string with a trailing newline).
C7_ValidateIffGrammar ==
    accepted # None => (Get(accepted) <=> Grammar(username))

BothCached == _followers # None /\ _following # None

\* C8: a save that fails (unrecognized format token, or I/O error) aborts
\* only that save: save_to_file returns normally to the menu, the caches
\* are unchanged, an unrecognized format token creates no file; a save is
\* only offered once both caches are filled, after which nothing can
\* raise, and the loop is left only by choice 3.
C8_SaveFailureContained ==
    /\ [][pc = "fmt_prompt" =>
            /\ pc' = "menu"
            /\ raised' = "none"
            /\ Caches' = Caches
            /\ fmt' \notin {"txt", "csv", "json"} =>
                  (files' = files /\ save_status' = "unsupported")]_vars
    /\ []((pc \in {"save_prompt", "fmt_prompt"} \/ save_status # "none"
             \/ files # {}) => BothCached)
    /\ [][BothCached => (BothCached' /\ pc' # "crashed")]_vars
    /\ [][pc' = "done" => (choice' = "3" /\ pc \in {"menu", "done"})]_vars

\* the token xml was typed: nothing written, back at the menu
C8_Witness ==
    /\ pc = "menu"
    /\ fmt = "xml"
    /\ save_status = "unsupported"
    /\ files = {}
    /\ BothCached

\* C9 as stated: a started fetch eventually ends, given only that every
\* page request returns a response.
C9_FetchEndsUnconditionally == Fetching ~> ~Fetching

\* C9 amended: a started fetch eventually ends when, besides every request
\* being answered, the endpoint stops answering non-empty pages after
\* finitely many; the loop is left only on an empty page (returning the
\* accumulated list) or on a failed request, and goes on only on a
\* non-empty page.
C9_FetchEndsOnFiniteEndpoint ==
    /\ (Fetching /\ ~endless) ~> ~Fetching
    /\ [][pc = "response" =>
            /\ pc' = "store" =>
                  \/ /\ LastServed'.body = Some(<<>>)
                     /\ data' = Some(results)
                  \/ /\ raise_for_status(LastServed'.status)
                     /\ data' = None
            /\ pc' = "crashed" => raised' # "none"
            /\ pc' = "request" =>
                  \/ overflow'
                  \/ /\ Len(served') = Len(served) + 1
                     /\ LastServed'.status = 200
                     /\ LastServed'.body \notin {None, Some(<<>>)}
            /\ pc' \in {"response", "store", "crashed", "request"}]_vars

\* a fetch that ended on the empty page after two non-empty ones
C9_Witness ==
    /\ ~endless
    /\ pc = "store"
    /\ Len(served) = 3
    /\ LastServed.body = Some(<<>>)
    /\ data # None

\* C10: a failed fetch is memoized like a successful empty one: once the
\* fetch of a kind has failed, its slot holds the empty list from then on,
\* every later call returns the empty list without a request, and each
\* kind's endpoint is paginated in at most one run per session.
C10_FailureMemoized ==
    /\ [][\A k \in fetch_failed :
            /\ Slot(k)' = Some(<<>>)
            /\ runs'[k] = runs[k]
            /\ kind # k => kind' # k]_vars
    /\ [](\A k \in Kinds : runs[k] <= 1)
    /\ [](\A k \in fetch_failed :
            (kind # k /\ LocalOf(k) # None) => LocalOf(k) = Slot(k))

\* get_following() answered [] from the cache, in a later find_* call,
\* after its fetch had failed
C10_Witness ==
    /\ pc = "get_followers"
    /\ "following" \in fetch_failed
    /\ _followers # None
    /\ following = Some(<<>>)
    /\ runs["following"] = 1

====
